---- MODULE Spec2Model ----
(***************************************************************************)
(* RepoManager of MLOps_Utils/helper_functions.py as a state machine.      *)
(*                                                                         *)
(* One RepoManager instance lives in one process.  The state is the        *)
(* instance's fields, the process state the methods change (current        *)
(* working directory, environment variables, the tracking client's URI),   *)
(* the part of the outside world the methods read back (the directory      *)
(* tree, git's global configuration) and the position of the call in       *)
(* progress (a stack of frames, one per active method).                    *)
(*                                                                         *)
(* Text is a sequence of pieces: the literal parts of an f-string and the  *)
(* values substituted into it, in order.  Bytes read from a subprocess are *)
(* sequences of integers and decoded text is a sequence of code points.    *)
(***************************************************************************)
EXTENDS Integers, Sequences, FiniteSets, TLC

\* Number of top-level method calls a behaviour makes.
MaxCalls == 2

\* ------------------------------------------------------------------ inputs

UserNames == {"alice"}
Emails == {"a@x.com"}
Tokens == {"T"}
Repos == {"proj"}
DataPaths == {"data/"}
OutputPaths == {"data/raw"}
Messages == {"Initialize DVC", "Added Versioned Data"}

\* Commands a caller hands to run_command directly.
ShellCommands == {<<"ls">>, <<"dvc init">>}

\* Exit statuses of a subprocess.
ExitCodes == {0, 1}

\* What a subprocess writes to the stream run_command reads: the two bytes of
\* U+00E9 in UTF-8, or one byte that is not UTF-8.
Streams == {<<195, 169>>, <<255>>}

\* What the environment decides about one subprocess: its exit status, what it
\* wrote to stdout and stderr, and whether it did its work on the file system
\* and on git's configuration before it exited.  A subprocess that exits 0 has
\* done its work; one that exits non-zero may have done it or not.  The stream
\* run_command does not read (stderr after exit 0, stdout otherwise) is empty.
Outcomes ==
    {o \in [rc : ExitCodes, out : Streams \cup {<< >>}, err : Streams \cup {<< >>},
             eff : BOOLEAN] :
        /\ o.rc = 0 => o.eff /\ o.err = << >> /\ o.out # << >>
        /\ o.rc # 0 => o.out = << >> /\ o.err # << >>}

None == "None"
NoArg == "-"
NoError == "-"
Unset == "unset"

\* ------------------------------------------------------------------ paths

\* The components of a relative path.
Components(p) ==
    IF p = "data/raw" THEN <<"data", "raw">>
    ELSE IF p = "data/" THEN <<"data">>
    ELSE <<p>>

\* A path and the directories above it.
WithParents(path) == {SubSeq(path, 1, k) : k \in 1..Len(path)}

\* What a cloned repository may already hold: nothing, the DVC marker, the
\* tracked output path.
CloneContents == SUBSET ({<<".dvc">>} \cup {Components(p) : p \in OutputPaths})

\* ------------------------------------------------------------------ bytes.decode

RECURSIVE decode(_)
\* bytes.decode('utf-8') over the bytes of Streams: the code points, or no
\* result (ok = FALSE) where Python raises UnicodeDecodeError.
decode(b) ==
    IF b = << >> THEN [ok |-> TRUE, text |-> << >>]
    ELSE IF b[1] < 128
    THEN LET r == decode(Tail(b))
         IN  [ok |-> r.ok, text |-> <<b[1]>> \o r.text]
    ELSE IF b[1] >= 194 /\ b[1] <= 223 /\ Len(b) >= 2 /\ b[2] >= 128 /\ b[2] <= 191
    THEN LET r == decode(Tail(Tail(b)))
         IN  [ok |-> r.ok, text |-> <<(b[1] - 192) * 64 + (b[2] - 128)>> \o r.text]
    ELSE [ok |-> FALSE, text |-> << >>]

\* ------------------------------------------------------------------ state

VARIABLES
    user_name,      \* self.user_name
    email,          \* self.email
    token,          \* self.token
    is_git_config,  \* self.is_git_config
    cwd,            \* the process's working directory, below the starting one
    fs,             \* the paths that exist, relative to the starting directory
    gitconfig,      \* git's global user.email and user.name
    environ,        \* os.environ, the two tracking variables
    tracking_uri,   \* the URI the tracking client holds
    stack,          \* the active method frames, the running one last
    raised,         \* the exception that ended the last top-level call
    issued,         \* the commands given to run_command in this top-level call
    last,           \* the last run_command: its command, the subprocess, its result
    log,            \* the records the last step wrote to the log
    console,        \* the lines printed in this top-level call
    nominal,        \* every subprocess of this call exited 0 having done its work
    cur,            \* this top-level call: method, arguments, state it started in
    prev,           \* the top-level call before it; of an initialize_repo_with_dvc
                    \* run that returned also its last command, if that exited non-zero
    ncalls,         \* top-level calls made
    ncfg,           \* invocations of set_git_config
    entry_only,     \* every top-level call so far was initialize_repo_with_dvc or
                    \* initialize_tracking
    waiting         \* run_command is in communicate() (line 42) on a subprocess
                    \* that does not exit

vars == <<user_name, email, token, is_git_config, cwd, fs, gitconfig, environ,
          tracking_uri, stack, raised, issued, last, log, console, nominal,
          cur, prev, ncalls, ncfg, entry_only, waiting>>

fields == <<user_name, email, token>>

NoCall == [cwd |-> << >>, fs |-> {}, fn |-> NoArg, repo |-> NoArg, data_path |-> NoArg,
           output_path |-> NoArg, failed |-> << >>]

NoCommand == [rc |-> 0, out |-> << >>, err |-> << >>, raised |-> FALSE, cmd |-> << >>,
              ret |-> None, errors |-> << >>]

\* The working trees a first call may find: the repository directory, and in it
\* the DVC marker and the tracked output path, each present or not.
InitialTrees ==
    {{}} \cup {WithParents(<<x>>) \cup UNION {WithParents(<<x>> \o m) : m \in c} :
                  x \in Repos, c \in CloneContents}

\* __init__(user_name, email, token)
Init ==
    /\ user_name \in UserNames
    /\ email \in Emails
    /\ token \in Tokens
    /\ is_git_config = FALSE
    /\ cwd = << >>
    /\ fs \in InitialTrees
    /\ gitconfig = [email |-> Unset, name |-> Unset]
    /\ environ = [MLFLOW_TRACKING_USERNAME |-> Unset, MLFLOW_TRACKING_PASSWORD |-> Unset]
    /\ tracking_uri = << >>
    /\ stack = << >>
    /\ raised = NoError
    /\ issued = << >>
    /\ last = NoCommand
    /\ log = << >>
    /\ console = << >>
    /\ nominal = TRUE
    /\ cur = NoCall
    /\ prev = NoCall
    /\ ncalls = 0
    /\ ncfg = 0
    /\ entry_only = TRUE
    /\ waiting = FALSE

\* ------------------------------------------------------------------ frames

Frame(fn, pc, repo, data_path, output_path, message, command) ==
    [fn |-> fn, repo |-> repo, data_path |-> data_path, output_path |-> output_path,
     pc |-> pc, message |-> message, command |-> command]

Idle == stack = << >>
Top == stack[Len(stack)]
\* The running method is at line pc and not blocked in a call.
At(fn, pc) == stack # << >> /\ ~waiting /\ Top.fn = fn /\ Top.pc = pc

\* The running method goes on at line pc.
Goto(pc) == stack' = [stack EXCEPT ![Len(stack)].pc = pc]
\* The running method calls another and goes on at line pc when that returns.
Invoke(frame, pc) == stack' = Append([stack EXCEPT ![Len(stack)].pc = pc], frame)
\* The running method returns to its caller.
Return == stack' = SubSeq(stack, 1, Len(stack) - 1)
\* An exception nobody catches unwinds every frame.
Unwind(exc) == stack' = << >> /\ raised' = exc

\* os.path.exists(path), relative to the working directory
exists(dir, tree, path) == (dir \o Components(path)) \in tree

\* A caller may start a top-level call.
Callable == Idle /\ ncalls < MaxCalls

\* A caller starts a top-level call.
Begin(frame) ==
    /\ ncalls' = ncalls + 1
    /\ stack' = <<frame>>
    /\ raised' = NoError
    /\ issued' = << >>
    /\ console' = << >>
    /\ log' = << >>
    /\ nominal' = TRUE
    /\ last' = NoCommand
    /\ prev' = [cur EXCEPT !.fs = {},
                            !.failed = IF /\ cur.fn = "initialize_repo_with_dvc"
                                         /\ raised = NoError
                                         /\ last.rc # 0
                                      THEN last.cmd ELSE << >>]
    /\ cur' = [cwd |-> cwd, fs |-> fs, fn |-> frame.fn, repo |-> frame.repo,
               data_path |-> frame.data_path, output_path |-> frame.output_path,
               failed |-> << >>]
    /\ entry_only' = (entry_only /\ frame.fn \in {"initialize_repo_with_dvc", "initialize_tracking"})
    /\ UNCHANGED <<fields, is_git_config, cwd, fs, gitconfig, environ, tracking_uri, ncfg,
                   waiting>>

\* ------------------------------------------------------------------ command text

\* helper_functions.py:52
config_email_command == <<"git config --global user.email ", email>>
\* helper_functions.py:53
config_name_command == <<"git config --global user.name ", user_name>>
\* helper_functions.py:61
clone_command(repo) ==
    <<"git clone https://", user_name, ":", token, "@dagshub.com/", user_name, "/", repo, ".git">>
\* helper_functions.py:72-77
dvc_commands(repo) ==
    << <<"dvc init">>,
       <<"dvc remote add origin s3://dvc">>,
       <<"dvc remote modify origin endpointurl https://dagshub.com/", user_name, "/", repo, ".s3">>,
       <<"dvc remote modify --local origin access_key_id ", token>>,
       <<"dvc remote modify --local origin secret_access_key ", token>>,
       <<"dvc remote default origin">> >>
\* helper_functions.py:84
add_command == <<"git add .">>
\* helper_functions.py:85
commit_command(message) == <<"git commit -m \"", message, "\"">>
\* helper_functions.py:86
push_command(repo) ==
    <<"git push https://", user_name, ":", token, "@dagshub.com/", user_name, "/", repo, ".git">>
\* helper_functions.py:93
dvc_add_command(data_path, output_path) == <<"dvc add ", data_path, " -o ", output_path>>
\* helper_functions.py:94
dvc_push_command == <<"dvc push -r origin">>

\* ------------------------------------------------------------------ the subprocess

\* The paths a command that does its work brings into being, run in directory dir:
\* git clone makes the repository directory (with what the remote holds), dvc
\* init makes the DVC marker, dvc add makes the output path.
Creates(dir, cmd, content) ==
    IF cmd[1] = "git clone https://"
    THEN WithParents(dir \o <<cmd[8]>>) \cup
         UNION {WithParents(dir \o <<cmd[8]>> \o m) : m \in content}
    ELSE IF cmd = <<"dvc init">>
    THEN WithParents(dir \o <<".dvc">>)
    ELSE IF cmd[1] = "dvc add "
    THEN WithParents(dir \o Components(cmd[4]))
    ELSE {}

\* git's global configuration after a command that does its work.
Configures(cfg, cmd) ==
    IF cmd[1] = "git config --global user.email " THEN [cfg EXCEPT !.email = cmd[2]]
    ELSE IF cmd[1] = "git config --global user.name " THEN [cfg EXCEPT !.name = cmd[2]]
    ELSE cfg

\* ------------------------------------------------------------------ run_command

\* The stream run_command decodes: stderr on a non-zero exit status (line 44),
\* stdout otherwise (line 46).
Decoded(o) == IF o.rc # 0 THEN decode(o.err) ELSE decode(o.out)

\* run_command raises: the decode of line 44 or of line 46 fails.
Raises(o) == ~Decoded(o).ok

\* The value run_command returns (lines 45, 46).
Returned(o) == IF o.rc # 0 THEN None ELSE decode(o.out).text

\* The record of line 44.
ErrorRecord(cmd, o) ==
    [level |-> "ERROR",
     msg |-> <<"Error executing command: ", cmd, "\nError: ", decode(o.err).text>>]

\* What run_command writes to the log (lines 43-44).
Logged(cmd, o) ==
    IF o.rc # 0 /\ ~Raises(o) THEN <<ErrorRecord(cmd, o)>> ELSE << >>

\* run_command(command), lines 41-46, with the subprocess ending as o says.
run_command(cmd, o, content) ==
    /\ issued' = Append(issued, cmd)
    /\ fs' = IF o.eff THEN fs \cup Creates(cwd, cmd, content) ELSE fs
    /\ gitconfig' = IF o.eff THEN Configures(gitconfig, cmd) ELSE gitconfig
    /\ last' = [rc |-> o.rc, out |-> o.out, err |-> o.err, raised |-> Raises(o),
                cmd |-> cmd,
                ret |-> IF Raises(o) THEN None ELSE Returned(o),
                errors |-> Logged(cmd, o)]
    /\ nominal' = (nominal /\ o.rc = 0 /\ o.eff /\ content = {} /\ ~Raises(o))
    /\ waiting' = FALSE

\* run_command(command) with a subprocess that never exits: communicate() of
\* line 42 does not return (Popen is given no timeout), whatever the subprocess
\* has done by then.
Blocks(cmd) ==
    /\ issued' = Append(issued, cmd)
    /\ waiting' = TRUE
    /\ \E eff \in BOOLEAN :
          /\ fs' = IF eff THEN fs \cup Creates(cwd, cmd, {}) ELSE fs
          /\ gitconfig' = IF eff THEN Configures(gitconfig, cmd) ELSE gitconfig
    /\ nominal' = FALSE
    /\ log' = << >>
    /\ UNCHANGED <<stack, raised, last>>

\* A line `self.run_command(cmd)` whose method goes on at line next.
Command(cmd, next) ==
    /\ \/ \E o \in Outcomes :
            /\ run_command(cmd, o, {})
            /\ log' = Logged(cmd, o)
            /\ IF Raises(o)
               THEN Unwind("UnicodeDecodeError")
               ELSE Goto(next) /\ raised' = raised
       \/ Blocks(cmd)
    /\ UNCHANGED <<fields, is_git_config, cwd, environ, tracking_uri, console,
                   cur, prev, ncalls, ncfg, entry_only>>

\* A step that runs no subprocess.
NoSubprocess == UNCHANGED <<fs, gitconfig, issued, last, nominal, waiting>>

InfoRecord(msg) == [level |-> "INFO", msg |-> msg]

\* ------------------------------------------------------------------ run_command, called directly

Call_run_command ==
    /\ Callable
    /\ \E c \in ShellCommands :
        Begin(Frame("run_command", 41, NoArg, NoArg, NoArg, NoArg, c))

run_command_41 ==
    /\ At("run_command", 41)
    /\ \/ \E o \in Outcomes :
            /\ run_command(Top.command, o, {})
            /\ log' = Logged(Top.command, o)
            /\ IF Raises(o)
               THEN Unwind("UnicodeDecodeError")
               ELSE Return /\ raised' = raised
       \/ Blocks(Top.command)
    /\ UNCHANGED <<fields, is_git_config, cwd, environ, tracking_uri, console,
                   cur, prev, ncalls, ncfg, entry_only>>

\* ------------------------------------------------------------------ set_git_config

set_git_config_frame == Frame("set_git_config", 52, NoArg, NoArg, NoArg, NoArg, << >>)

Call_set_git_config ==
    /\ Callable
    /\ Begin(set_git_config_frame)

set_git_config_52 ==
    /\ At("set_git_config", 52)
    /\ ncfg' = ncfg + 1
    /\ \/ \E o \in Outcomes :
            /\ run_command(config_email_command, o, {})
            /\ log' = Logged(config_email_command, o)
            /\ IF Raises(o)
               THEN Unwind("UnicodeDecodeError")
               ELSE Goto(53) /\ raised' = raised
       \/ Blocks(config_email_command)
    /\ UNCHANGED <<fields, is_git_config, cwd, environ, tracking_uri, console,
                   cur, prev, ncalls, entry_only>>

\* set_git_config_53 with the flag recording whether the command of line 53
\* succeeded.
set_git_config_53_flag_is_success ==
    /\ At("set_git_config", 53)
    /\ \/ \E o \in Outcomes :
            /\ run_command(config_name_command, o, {})
            /\ IF Raises(o)
               THEN /\ Unwind("UnicodeDecodeError")
                    /\ is_git_config' = is_git_config
                    /\ log' = << >>
               ELSE /\ is_git_config' = (o.rc = 0)
                    /\ log' = Logged(config_name_command, o) \o
                              <<InfoRecord(<<"Git configuration set.">>)>>
                    /\ Return
                    /\ raised' = raised
       \/ Blocks(config_name_command) /\ is_git_config' = is_git_config
    /\ UNCHANGED <<fields, cwd, environ, tracking_uri, console, cur, prev, ncalls, ncfg,
                   entry_only>>

\* lines 53-55
set_git_config_53 ==
    /\ At("set_git_config", 53)
    /\ \/ \E o \in Outcomes :
            /\ run_command(config_name_command, o, {})
            /\ IF Raises(o)
               THEN /\ Unwind("UnicodeDecodeError")
                    /\ is_git_config' = is_git_config
                    /\ log' = << >>
               ELSE /\ is_git_config' = TRUE
                    /\ log' = Logged(config_name_command, o) \o
                              <<InfoRecord(<<"Git configuration set.">>)>>
                    /\ Return
                    /\ raised' = raised
       \/ Blocks(config_name_command) /\ is_git_config' = is_git_config
    /\ UNCHANGED <<fields, cwd, environ, tracking_uri, console, cur, prev, ncalls, ncfg,
                   entry_only>>

\* ------------------------------------------------------------------ clone_repo

clone_repo_frame(repo) == Frame("clone_repo", 61, repo, NoArg, NoArg, NoArg, << >>)

Call_clone_repo ==
    /\ Callable
    /\ \E repo \in Repos : Begin(clone_repo_frame(repo))

\* lines 61-66
clone_repo_61 ==
    /\ At("clone_repo", 61)
    /\ \/ \E o \in Outcomes, content \in CloneContents :
            LET cmd == clone_command(Top.repo) IN
            /\ run_command(cmd, o, content)
            /\ IF Raises(o)
               THEN /\ Unwind("UnicodeDecodeError")
                    /\ cwd' = cwd
                    /\ log' = << >>
               ELSE IF ~exists(cwd, fs', Top.repo)
               THEN /\ log' = Logged(cmd, o) \o
                              <<[level |-> "ERROR",
                                 msg |-> <<"Error: Failed to clone the repository ", Top.repo>>]>>
                    /\ cwd' = cwd
                    /\ Return
                    /\ raised' = raised
               ELSE /\ cwd' = cwd \o Components(Top.repo)
                    /\ log' = Logged(cmd, o) \o
                              <<InfoRecord(<<"Repository ", Top.repo, " cloned.">>)>>
                    /\ Return
                    /\ raised' = raised
       \/ Blocks(clone_command(Top.repo)) /\ cwd' = cwd
    /\ UNCHANGED <<fields, is_git_config, environ, tracking_uri, console, cur, prev,
                   ncalls, ncfg, entry_only>>

\* ------------------------------------------------------------------ initialize_dvc

initialize_dvc_frame(repo) == Frame("initialize_dvc", 72, repo, NoArg, NoArg, NoArg, << >>)

Call_initialize_dvc ==
    /\ Callable
    /\ \E repo \in Repos : Begin(initialize_dvc_frame(repo))

initialize_dvc_72 ==
    /\ At("initialize_dvc", 72)
    /\ Command(dvc_commands(Top.repo)[1], 73)

initialize_dvc_73 ==
    /\ At("initialize_dvc", 73)
    /\ Command(dvc_commands(Top.repo)[2], 74)

initialize_dvc_74 ==
    /\ At("initialize_dvc", 74)
    /\ Command(dvc_commands(Top.repo)[3], 75)

initialize_dvc_75 ==
    /\ At("initialize_dvc", 75)
    /\ Command(dvc_commands(Top.repo)[4], 76)

initialize_dvc_76 ==
    /\ At("initialize_dvc", 76)
    /\ Command(dvc_commands(Top.repo)[5], 77)

\* A method's last run_command line, the logging.info after it, and the return.
LastCommand(cmd, info) ==
    /\ \/ \E o \in Outcomes :
            /\ run_command(cmd, o, {})
            /\ IF Raises(o)
               THEN /\ Unwind("UnicodeDecodeError")
                    /\ log' = << >>
               ELSE /\ log' = Logged(cmd, o) \o <<InfoRecord(info)>>
                    /\ Return
                    /\ raised' = raised
       \/ Blocks(cmd)
    /\ UNCHANGED <<fields, is_git_config, cwd, environ, tracking_uri, console,
                   cur, prev, ncalls, ncfg, entry_only>>

\* lines 77-78
initialize_dvc_77 ==
    /\ At("initialize_dvc", 77)
    /\ LastCommand(dvc_commands(Top.repo)[6],
                   <<"DVC initialized and remote storage set up.">>)

\* ------------------------------------------------------------------ commit_and_push_changes

commit_and_push_changes_frame(repo, message) ==
    Frame("commit_and_push_changes", 84, repo, NoArg, NoArg, message, << >>)

Call_commit_and_push_changes ==
    /\ Callable
    /\ \E repo \in Repos, message \in Messages :
        Begin(commit_and_push_changes_frame(repo, message))

commit_and_push_changes_84 ==
    /\ At("commit_and_push_changes", 84)
    /\ Command(add_command, 85)

commit_and_push_changes_85 ==
    /\ At("commit_and_push_changes", 85)
    /\ Command(commit_command(Top.message), 86)

\* lines 86-87
commit_and_push_changes_86 ==
    /\ At("commit_and_push_changes", 86)
    /\ LastCommand(push_command(Top.repo),
                   <<"Changes committed and pushed with message: ", Top.message>>)

\* ------------------------------------------------------------------ add_data_to_dvc

add_data_to_dvc_frame(data_path, output_path) ==
    Frame("add_data_to_dvc", 93, NoArg, data_path, output_path, NoArg, << >>)

Call_add_data_to_dvc ==
    /\ Callable
    /\ \E data_path \in DataPaths, output_path \in OutputPaths :
        Begin(add_data_to_dvc_frame(data_path, output_path))

add_data_to_dvc_93 ==
    /\ At("add_data_to_dvc", 93)
    /\ Command(dvc_add_command(Top.data_path, Top.output_path), 94)

\* lines 94-95
add_data_to_dvc_94 ==
    /\ At("add_data_to_dvc", 94)
    /\ LastCommand(dvc_push_command,
                   <<"Data from ", Top.data_path, " added to DVC and pushed to remote storage.">>)

\* ------------------------------------------------------------------ initialize_repo_with_dvc

\* A step of an entry point that runs no subprocess and prints `lines`.
Prints(lines) ==
    /\ console' = console \o lines
    /\ log' = << >>
    /\ NoSubprocess
    /\ UNCHANGED <<fields, is_git_config, environ, tracking_uri, raised, cur, prev,
                   ncalls, entry_only>>

Call_initialize_repo_with_dvc ==
    /\ Callable
    /\ \E repo \in Repos, data_path \in DataPaths, output_path \in OutputPaths :
        Begin(Frame("initialize_repo_with_dvc", 101, repo, data_path, output_path,
                    NoArg, << >>))

\* lines 101-102
initialize_repo_with_dvc_101 ==
    /\ At("initialize_repo_with_dvc", 101)
    /\ IF ~is_git_config
       THEN Invoke(set_git_config_frame, 103)
       ELSE Goto(105)
    /\ Prints(<< >>)
    /\ UNCHANGED <<cwd, ncfg>>

\* line 103
initialize_repo_with_dvc_103 ==
    /\ At("initialize_repo_with_dvc", 103)
    /\ Goto(105)
    /\ Prints(<< <<">>> Git configuration set successfully">> >>)
    /\ UNCHANGED <<cwd, ncfg>>

\* lines 105-106 and 108-110
initialize_repo_with_dvc_105 ==
    /\ At("initialize_repo_with_dvc", 105)
    /\ IF ~exists(cwd, fs, Top.repo)
       THEN /\ Invoke(clone_repo_frame(Top.repo), 107)
            /\ cwd' = cwd
            /\ Prints(<< >>)
       ELSE /\ cwd' = cwd \o Components(Top.repo)
            /\ Goto(112)
            /\ Prints(<< <<">>> Repository ", Top.repo, " already exists">> >>)
    /\ UNCHANGED ncfg

\* line 107
initialize_repo_with_dvc_107 ==
    /\ At("initialize_repo_with_dvc", 107)
    /\ Goto(112)
    /\ Prints(<< <<">>> Repository ", Top.repo, " cloned successfully">> >>)
    /\ UNCHANGED <<cwd, ncfg>>

\* initialize_repo_with_dvc_112 with the test of line 112 inverted.
initialize_repo_with_dvc_112_inverted ==
    /\ At("initialize_repo_with_dvc", 112)
    /\ IF exists(cwd, fs, ".dvc")
       THEN /\ Invoke(initialize_dvc_frame(Top.repo), 114)
            /\ Prints(<< >>)
       ELSE /\ Goto(120)
            /\ Prints(<< <<">>> DVC already initialized">> >>)
    /\ UNCHANGED <<cwd, ncfg>>

\* lines 112-113 and 117-118
initialize_repo_with_dvc_112 ==
    /\ At("initialize_repo_with_dvc", 112)
    /\ IF ~exists(cwd, fs, ".dvc")
       THEN /\ Invoke(initialize_dvc_frame(Top.repo), 114)
            /\ Prints(<< >>)
       ELSE /\ Goto(120)
            /\ Prints(<< <<">>> DVC already initialized">> >>)
    /\ UNCHANGED <<cwd, ncfg>>

\* initialize_repo_with_dvc_114 without the commit_and_push_changes of line 115.
initialize_repo_with_dvc_114_no_commit ==
    /\ At("initialize_repo_with_dvc", 114)
    /\ Goto(116)
    /\ Prints(<< <<">>> DVC initialized and remote storage set up successfully">> >>)
    /\ UNCHANGED <<cwd, ncfg>>

\* lines 114-115
initialize_repo_with_dvc_114 ==
    /\ At("initialize_repo_with_dvc", 114)
    /\ Invoke(commit_and_push_changes_frame(Top.repo, "Initialize DVC"), 116)
    /\ Prints(<< <<">>> DVC initialized and remote storage set up successfully">> >>)
    /\ UNCHANGED <<cwd, ncfg>>

\* line 116
initialize_repo_with_dvc_116 ==
    /\ At("initialize_repo_with_dvc", 116)
    /\ Goto(120)
    /\ Prints(<< <<">>> Changes committed and pushed to the repository with message: \"Initialize DVC\"">> >>)
    /\ UNCHANGED <<cwd, ncfg>>

\* lines 120-121 and 125-126
initialize_repo_with_dvc_120 ==
    /\ At("initialize_repo_with_dvc", 120)
    /\ IF ~exists(cwd, fs, Top.output_path)
       THEN /\ Invoke(add_data_to_dvc_frame(Top.data_path, Top.output_path), 122)
            /\ Prints(<< >>)
       ELSE /\ Return
            /\ Prints(<< <<">>> Data from ", Top.data_path, " already added to Remote with DVC">> >>)
    /\ UNCHANGED <<cwd, ncfg>>

\* lines 122-123
initialize_repo_with_dvc_122 ==
    /\ At("initialize_repo_with_dvc", 122)
    /\ Invoke(commit_and_push_changes_frame(Top.repo, "Added Versioned Data"), 124)
    /\ Prints(<< <<">>> Data from ", Top.data_path, " added to DVC and pushed to remote storage">> >>)
    /\ UNCHANGED <<cwd, ncfg>>

\* initialize_repo_with_dvc_124 going back to the directory the call started in
\* before it returns.
initialize_repo_with_dvc_124_restores ==
    /\ At("initialize_repo_with_dvc", 124)
    /\ Return
    /\ Prints(<< <<">>> Changes committed and pushed to the repository with message: \"Added Versioned Data\"">> >>)
    /\ cwd' = cur.cwd
    /\ UNCHANGED ncfg

\* line 124
initialize_repo_with_dvc_124 ==
    /\ At("initialize_repo_with_dvc", 124)
    /\ Return
    /\ Prints(<< <<">>> Changes committed and pushed to the repository with message: \"Added Versioned Data\"">> >>)
    /\ UNCHANGED <<cwd, ncfg>>

\* ------------------------------------------------------------------ initialize_tracking

\* MLFLOW_TRACKING_URI with the repository before the identity name.
MLFLOW_TRACKING_URI_swapped(repo) == <<"https://dagshub.com/", repo, "/", user_name, ".mlflow">>

\* line 134
MLFLOW_TRACKING_URI(repo) == <<"https://dagshub.com/", user_name, "/", repo, ".mlflow">>

Call_initialize_tracking ==
    /\ Callable
    /\ \E repo \in Repos :
        Begin(Frame("initialize_tracking", 129, repo, NoArg, NoArg, NoArg, << >>))

\* initialize_tracking_129 with the test of line 129 inverted.
initialize_tracking_129_inverted ==
    /\ At("initialize_tracking", 129)
    /\ IF is_git_config
       THEN Invoke(set_git_config_frame, 131)
       ELSE Goto(132)
    /\ Prints(<< >>)
    /\ UNCHANGED <<cwd, ncfg>>

\* lines 129-130
initialize_tracking_129 ==
    /\ At("initialize_tracking", 129)
    /\ IF ~is_git_config
       THEN Invoke(set_git_config_frame, 131)
       ELSE Goto(132)
    /\ Prints(<< >>)
    /\ UNCHANGED <<cwd, ncfg>>

\* line 131
initialize_tracking_131 ==
    /\ At("initialize_tracking", 131)
    /\ Goto(132)
    /\ Prints(<< <<">>> Git configuration set successfully">> >>)
    /\ UNCHANGED <<cwd, ncfg>>

\* lines 132-136
initialize_tracking_132 ==
    /\ At("initialize_tracking", 132)
    /\ environ' = [environ EXCEPT !.MLFLOW_TRACKING_USERNAME = user_name,
                                  !.MLFLOW_TRACKING_PASSWORD = token]
    /\ tracking_uri' = MLFLOW_TRACKING_URI(Top.repo)
    /\ console' = Append(console,
                         <<">>> MLFlow Experiment Tracking Initialized\n\tExperiment Tracking URI : ",
                           MLFLOW_TRACKING_URI(Top.repo)>>)
    /\ log' = << >>
    /\ Return
    /\ NoSubprocess
    /\ UNCHANGED <<fields, is_git_config, cwd, raised, cur, prev, ncalls, ncfg, entry_only>>

\* ------------------------------------------------------------------ specification

Next ==
    \/ Call_run_command
    \/ run_command_41
    \/ Call_set_git_config
    \/ set_git_config_52
    \/ set_git_config_53
    \/ Call_clone_repo
    \/ clone_repo_61
    \/ Call_initialize_dvc
    \/ initialize_dvc_72
    \/ initialize_dvc_73
    \/ initialize_dvc_74
    \/ initialize_dvc_75
    \/ initialize_dvc_76
    \/ initialize_dvc_77
    \/ Call_commit_and_push_changes
    \/ commit_and_push_changes_84
    \/ commit_and_push_changes_85
    \/ commit_and_push_changes_86
    \/ Call_add_data_to_dvc
    \/ add_data_to_dvc_93
    \/ add_data_to_dvc_94
    \/ Call_initialize_repo_with_dvc
    \/ initialize_repo_with_dvc_101
    \/ initialize_repo_with_dvc_103
    \/ initialize_repo_with_dvc_105
    \/ initialize_repo_with_dvc_107
    \/ initialize_repo_with_dvc_112
    \/ initialize_repo_with_dvc_114
    \/ initialize_repo_with_dvc_116
    \/ initialize_repo_with_dvc_120
    \/ initialize_repo_with_dvc_122
    \/ initialize_repo_with_dvc_124
    \/ Call_initialize_tracking
    \/ initialize_tracking_129
    \/ initialize_tracking_131
    \/ initialize_tracking_132

Spec == Init /\ [][Next]_vars

\* ------------------------------------------------------------------ reading a run

EI == "initialize_repo_with_dvc"

IsIdentity(c) ==
    c[1] \in {"git config --global user.email ", "git config --global user.name "}
IsClone(c) == c[1] = "git clone https://"
IsStorageInit(c) == c = <<"dvc init">> \/ c[1] = "dvc remote add origin s3://dvc"
                    \/ c[1] = "dvc remote modify origin endpointurl https://dagshub.com/"
                    \/ c[1] = "dvc remote modify --local origin access_key_id "
                    \/ c[1] = "dvc remote modify --local origin secret_access_key "
                    \/ c[1] = "dvc remote default origin"
IsDataRegistration(c) == c[1] = "dvc add " \/ c = <<"dvc push -r origin">>
IsCommitPush(c) ==
    c = <<"git add .">> \/ c[1] = "git commit -m \"" \/ c[1] = "git push https://"

\* The stage each command of this call belongs to, in the order issued.
Stage(c) ==
    IF IsIdentity(c) THEN "identity"
    ELSE IF IsClone(c) THEN "clone"
    ELSE IF IsStorageInit(c) THEN "storage-init"
    ELSE IF IsDataRegistration(c) THEN "data-registration"
    ELSE IF IsCommitPush(c) THEN "commit/push"
    ELSE "other"
Stages == [i \in 1..Len(issued) |-> Stage(issued[i])]

Issues(stage) == \E i \in 1..Len(issued) : Stage(issued[i]) = stage

\* The top-level call has returned to its caller without an exception.
ReturnedNormally == Idle /\ ncalls > 0 /\ raised = NoError

\* The three commands of commit_and_push_changes(repo, message).
CommitPush(repo, message) ==
    <<add_command, commit_command(message), push_command(repo)>>

\* ------------------------------------------------------------------ C1

\* This call is initialize_repo_with_dvc, the call before it was too, with the
\* same arguments, and the repository directory, its DVC marker and its output
\* path all exist in the tree the first call started in.
SecondRunAllDone ==
    /\ cur.fn = EI
    /\ prev.fn = EI
    /\ prev.repo = cur.repo
    /\ prev.data_path = cur.data_path
    /\ prev.output_path = cur.output_path
    /\ exists(prev.cwd, cur.fs, cur.repo)
    /\ exists(prev.cwd \o Components(cur.repo), cur.fs, ".dvc")
    /\ exists(prev.cwd \o Components(cur.repo), cur.fs, cur.output_path)
    /\ raised = NoError

\* C1: a second initialize_repo_with_dvc with the same arguments, starting from
\* the process state the first one left and with all three markers in place,
\* issues no clone, storage-init, data-registration or commit/push command.
C1_SecondRunIssuesNothing ==
    SecondRunAllDone =>
        \A i \in 1..Len(issued) :
            Stage(issued[i]) \notin {"clone", "storage-init", "data-registration", "commit/push"}

\* ------------------------------------------------------------------ C2

\* In this initialize_repo_with_dvc run clone_repo ran its check of line 62 and
\* found the repository directory absent.
CloneCheckFailed ==
    /\ cur.fn = EI
    /\ Issues("clone")
    /\ raised = NoError
    /\ ~exists(cur.cwd, fs, cur.repo)

\* C2: when the check after the clone command fails, the working directory is
\* the one the run started in and the run issues no storage-init,
\* data-registration or commit/push command.
C2_FailedCloneStopsRun ==
    CloneCheckFailed =>
        /\ cwd = cur.cwd
        /\ ~Issues("storage-init")
        /\ ~Issues("data-registration")
        /\ ~Issues("commit/push")

\* ------------------------------------------------------------------ C3

\* The first call of a fresh RepoManager was initialize_repo_with_dvc, in a tree
\* without the repository directory, every subprocess exited 0 having done its
\* work, the clone brought a repository without DVC marker and output path, and
\* the call has returned.
FreshRunDone ==
    /\ ncalls = 1
    /\ cur.fn = EI
    /\ ~exists(cur.cwd, cur.fs, cur.repo)
    /\ nominal
    /\ ReturnedNormally

\* C3 as claimed: 2 identity, 1 clone, 5 storage-init, 3 commit/push,
\* 2 data-registration, 3 commit/push commands, 16 in all.
C3_SixteenCommands ==
    FreshRunDone =>
        Stages = <<"identity", "identity", "clone",
                   "storage-init", "storage-init", "storage-init", "storage-init",
                   "storage-init",
                   "commit/push", "commit/push", "commit/push",
                   "data-registration", "data-registration",
                   "commit/push", "commit/push", "commit/push">>

\* C3 amended: the storage-init stage is dvc init followed by the five remote
\* commands, six commands, so the run issues these 17 commands in this order
\* and nothing else.
C3_SeventeenCommands ==
    FreshRunDone =>
        issued = <<config_email_command, config_name_command, clone_command(cur.repo)>>
                 \o dvc_commands(cur.repo)
                 \o CommitPush(cur.repo, "Initialize DVC")
                 \o <<dvc_add_command(cur.data_path, cur.output_path), dvc_push_command>>
                 \o CommitPush(cur.repo, "Added Versioned Data")

C3_Witness == FreshRunDone /\ Len(issued) = 17 /\ cwd = Components(cur.repo)

\* ------------------------------------------------------------------ C6

\* C6: run_command does not raise; on a non-zero exit status it returns None
\* and logs one error record holding the command text; on exit status 0 it
\* returns the decoded standard output and logs nothing.
C6_RunCommandNeverRaises ==
    last.cmd # << >> =>
        /\ ~last.raised
        /\ last.rc # 0 =>
            /\ last.ret = None
            /\ Len(last.errors) = 1
            /\ last.errors[1].level = "ERROR"
            /\ last.errors[1].msg[2] = last.cmd
        /\ last.rc = 0 =>
            /\ last.ret = decode(last.out).text
            /\ last.errors = << >>

\* ------------------------------------------------------------------ C7

\* initialize_tracking has returned.
TrackingReturned == cur.fn = "initialize_tracking" /\ ReturnedNormally

\* C7: after initialize_tracking(repo) returns, the tracking username variable
\* is the identity name, the tracking password variable is the token and the
\* tracking URI is https://dagshub.com/<identity>/<repo>.mlflow.
C7_TrackingEndpoint ==
    TrackingReturned =>
        /\ environ.MLFLOW_TRACKING_USERNAME = user_name
        /\ environ.MLFLOW_TRACKING_PASSWORD = token
        /\ tracking_uri = <<"https://dagshub.com/", user_name, "/", cur.repo, ".mlflow">>
        /\ (user_name = "alice" /\ cur.repo = "proj" =>
                tracking_uri = <<"https://dagshub.com/", "alice", "/", "proj", ".mlflow">>)

C7_Witness ==
    /\ TrackingReturned
    /\ user_name = "alice"
    /\ cur.repo = "proj"
    /\ ncalls = 2
    /\ prev.fn = "initialize_tracking"

\* ------------------------------------------------------------------ C4

\* An initialize_repo_with_dvc run has returned, and it did not move into a
\* repository it cloned in this run (whose content the starting tree cannot show).
RunOverStartTree ==
    /\ cur.fn = EI
    /\ ReturnedNormally
    /\ ~(Issues("clone") /\ cwd # cur.cwd)

\* C4: the run issues the commands of the clone, storage-init and
\* data-registration stages whose marker was absent when the run started, and
\* no command of a stage whose marker was present.
C4_OnlyRemainingStages ==
    RunOverStartTree =>
        LET inside == cur.cwd \o Components(cur.repo) IN
        /\ Issues("clone") <=> ~exists(cur.cwd, cur.fs, cur.repo)
        /\ Issues("storage-init") <=> ~exists(inside, cur.fs, ".dvc")
        /\ Issues("data-registration") <=> ~exists(inside, cur.fs, cur.output_path)

\* ------------------------------------------------------------------ C5

\* C5: while only initialize_repo_with_dvc and initialize_tracking are called,
\* set_git_config is invoked at most once.
C5_IdentityAtMostOnce ==
    entry_only => ncfg <= 1

\* ------------------------------------------------------------------ C8

\* The run before this one was initialize_repo_with_dvc with the same
\* arguments, it returned, and the last command it issued, one of the clone,
\* storage-init, data-registration or commit/push commands, exited non-zero.
AfterFailedRun ==
    /\ cur.fn = EI
    /\ prev.fn = EI
    /\ prev.repo = cur.repo
    /\ prev.data_path = cur.data_path
    /\ prev.output_path = cur.output_path
    /\ prev.failed # << >>
    /\ Stage(prev.failed) \in {"clone", "storage-init", "data-registration", "commit/push"}

EILine == IF Len(stack) = 1 /\ stack[1].fn = EI THEN stack[1].pc ELSE 0

StartsAt(s, i) == i + Len(s) - 1 <= Len(issued) /\ SubSeq(issued, i, i + Len(s) - 1) = s

\* The run is over: returned or ended by an exception.
RunOver == cur.fn = EI /\ Idle

\* C9: in every run the "Initialize DVC" commit/push triple is issued exactly
\* when the storage-init commands are, right after them, and the "Added
\* Versioned Data" triple exactly when the data-registration commands are,
\* right after them.
C9_CommitFollowsStage ==
    RunOver =>
        /\ Issues("storage-init") <=>
              \E i \in 1..Len(issued) :
                  StartsAt(dvc_commands(cur.repo) \o CommitPush(cur.repo, "Initialize DVC"), i)
        /\ Issues("data-registration") <=>
              \E i \in 1..Len(issued) :
                  StartsAt(<<dvc_add_command(cur.data_path, cur.output_path), dvc_push_command>>
                           \o CommitPush(cur.repo, "Added Versioned Data"), i)
        /\ \A i \in 1..Len(issued) :
              Stage(issued[i]) = "commit/push" =>
                  (Issues("storage-init") \/ Issues("data-registration"))

\* ------------------------------------------------------------------ C10

\* C10: a run that finds the repository directory issues no clone command and
\* moves into it; a run that does not find it issues one clone command and
\* then is in the repository directory exactly if that directory exists, and
\* nothing is raised.
C10_CloneStage ==
    /\ (cur.fn = EI /\ exists(cur.cwd, cur.fs, cur.repo) /\ (EILine > 105 \/ ReturnedNormally)) =>
            (~Issues("clone") /\ cwd = cur.cwd \o Components(cur.repo))
    /\ (cur.fn = EI /\ ~exists(cur.cwd, cur.fs, cur.repo) /\ Issues("clone")
        /\ Stage(issued[Len(issued)]) = "clone") =>
            /\ Cardinality({i \in 1..Len(issued) : IsClone(issued[i])}) = 1
            /\ (cwd = cur.cwd \o Components(cur.repo)) <=> exists(cur.cwd, fs, cur.repo)
            /\ (cwd # cur.cwd \o Components(cur.repo)) => cwd = cur.cwd
            /\ raised = NoError

\* ------------------------------------------------------------------ C11

\* No frame of method fn is on the stack.
NotRunning(fn) == \A i \in 1..Len(stack) : stack[i].fn # fn

\* This call ran initialize_dvc, directly or from initialize_repo_with_dvc, and
\* initialize_dvc is over.
InitializeDvcOver ==
    /\ cur.fn \in {"initialize_dvc", EI}
    /\ Issues("storage-init")
    /\ NotRunning("initialize_dvc")

\* C11: whatever its commands' outcomes, initialize_dvc issues its whole command
\* sequence, once and in the same order, and nothing that existed when the call
\* started is gone afterwards.
C11_WholeSequenceNoRollback ==
    InitializeDvcOver =>
        /\ \E i \in 1..Len(issued) : StartsAt(dvc_commands(cur.repo), i)
        /\ Cardinality({i \in 1..Len(issued) : IsStorageInit(issued[i])})
              = Len(dvc_commands(cur.repo))
        /\ cur.fs \subseteq fs

\* ------------------------------------------------------------------ C12

\* This call ran commit_and_push_changes(repo, message), directly or from
\* initialize_repo_with_dvc, and no commit_and_push_changes is running.
CommitAndPushOver ==
    /\ cur.fn \in {"commit_and_push_changes", EI}
    /\ Issues("commit/push")
    /\ NotRunning("commit_and_push_changes")

\* The positions of the commit/push commands of this call.
CommitPushAt == {i \in 1..Len(issued) : IsCommitPush(issued[i])}

\* C12: whatever their outcomes, commit_and_push_changes issues three commands,
\* git add, git commit and git push in this order: every git add is followed at
\* once by a git commit and a git push, and no commit/push command is issued
\* outside such a triple.
C12_AlwaysThreeCommands ==
    CommitAndPushOver =>
        \A i \in CommitPushAt :
            \E j \in {i - 2, i - 1, i} :
                /\ j >= 1
                /\ j + 2 <= Len(issued)
                /\ issued[j] = add_command
                /\ issued[j + 1][1] = "git commit -m \""
                /\ issued[j + 2] = push_command(cur.repo)

\* ------------------------------------------------------------------ C13

\* The stage whose success a printed line reports ("-": the line reports a
\* stage that was skipped, or tracking).
ReportedStage(line) ==
    IF line = <<">>> Git configuration set successfully">> THEN "identity"
    ELSE IF line[1] = ">>> Repository " /\ line[3] = " cloned successfully" THEN "clone"
    ELSE IF line = <<">>> DVC initialized and remote storage set up successfully">>
    THEN "storage-init"
    ELSE IF line[1] = ">>> Data from " /\ line[3] = " added to DVC and pushed to remote storage"
    THEN "data-registration"
    ELSE IF line[1] = ">>> Changes committed and pushed to the repository with message: \"Initialize DVC\""
            \/ line[1] = ">>> Changes committed and pushed to the repository with message: \"Added Versioned Data\""
    THEN "commit/push"
    ELSE "-"

\* initialize_repo_with_dvc has just printed a line, and the command run last
\* is of the stage the line reports: it is that stage's last command.
StageJustReported ==
    /\ cur.fn = EI
    /\ console # << >>
    /\ last.cmd # << >>
    /\ ReportedStage(console[Len(console)]) = Stage(last.cmd)

\* C13: a stage's success message is printed only if the stage's commands
\* succeeded: when the message has just been printed, the stage's last command
\* exited 0.
C13_SuccessMessageOnSuccessOnly ==
    StageJustReported => last.rc = 0

\* ------------------------------------------------------------------ C14

\* initialize_tracking is the call in progress.
InTracking == cur.fn = "initialize_tracking" /\ stack # << >>

\* C14 as claimed: no step of an initialize_tracking call issues a command,
\* changes git's global configuration, the working directory or the flag.
C14_TrackingOnlyRegisters ==
    [][InTracking =>
          /\ issued' = issued
          /\ gitconfig' = gitconfig
          /\ cwd' = cwd
          /\ is_git_config' = is_git_config]_vars

\* C14 amended: no step of an initialize_tracking call changes the working
\* directory; if the flag is set, no step of it issues a command or changes
\* git's global configuration or the flag; if the flag is not set, the call
\* first runs set_git_config, the commands it issues are the two identity
\* commands and no other, and the flag is set when set_git_config has returned.
C14_TrackingRegistersOnceConfigured ==
    [][InTracking =>
          /\ cwd' = cwd
          /\ is_git_config =>
                /\ issued' = issued
                /\ gitconfig' = gitconfig
                /\ is_git_config'
          /\ \A i \in 1..Len(issued') : IsIdentity(issued'[i])
          /\ Len(issued') <= 2
          /\ (Len(stack') = 1 /\ stack'[1].pc = 131) => is_git_config']_vars

\* A second call, initialize_tracking with the flag set by the call before it,
\* has returned without issuing a command.
C14_Witness ==
    /\ TrackingReturned
    /\ ncalls = 2
    /\ is_git_config
    /\ issued = << >>

\* ------------------------------------------------------------------ C15

\* C15: is_git_config is false at construction, and no step of any method
\* takes it from true to false.
C15_FlagMonotonic ==
    /\ ~is_git_config
    /\ [][is_git_config => is_git_config']_vars

\* set_git_config was called and set the flag, and after it a whole
\* initialize_repo_with_dvc call ran with the flag set.
C15_Witness ==
    /\ is_git_config
    /\ ncalls = 2
    /\ prev.fn = "set_git_config"
    /\ cur.fn = EI
    /\ ReturnedNormally
    /\ ncfg = 1
    /\ Len(issued) > 0

\* ------------------------------------------------------------------ C16

\* The interpreter goes on with the call in progress: a method that is not
\* blocked in communicate() takes its next step.
Running == stack # << >> /\ Next

\* The program under the interpreter's scheduling: one thread, which runs the
\* call in progress until it returns, raises or blocks; the caller is free to
\* make a next call or not.
FairSpec == Spec /\ WF_vars(Running)

\* The n-th top-level call is initialize_repo_with_dvc.
EICall(n) == ncalls = n /\ cur.fn = EI

\* The most commands one initialize_repo_with_dvc call issues.
MostCommands == Len(<<config_email_command, config_name_command, clone_command("proj")>>
                    \o dvc_commands("proj") \o CommitPush("proj", "Initialize DVC")
                    \o <<dvc_add_command("data/", "data/raw"), dvc_push_command>>
                    \o CommitPush("proj", "Added Versioned Data"))

\* C16: if every subprocess exits, every initialize_repo_with_dvc call in
\* progress eventually returns to its caller, so that a call which is over has
\* returned; a call issues no more commands than its four stages hold; and
\* while a subprocess does not exit, the call stays in progress and issues
\* nothing more.
C16_Termination ==
    /\ ([]~waiting) =>
          \A n \in 1..MaxCalls :
              (EICall(n) /\ ~Idle) ~> (EICall(n) /\ ReturnedNormally)
    /\ []((cur.fn = EI /\ Idle) => raised = NoError)
    /\ [](cur.fn = EI => Len(issued) <= MostCommands)
    /\ [][waiting => (waiting' /\ stack' = stack /\ issued' = issued)]_vars

\* The same with a call that ends by an exception counted as over, which is
\* what holds of the code.
C16_CallEnds ==
    /\ ([]~waiting) =>
          \A n \in 1..MaxCalls :
              (EICall(n) /\ ~Idle) ~> (EICall(n) /\ Idle)
    /\ [](cur.fn = EI => Len(issued) <= MostCommands)
    /\ [][waiting => (waiting' /\ stack' = stack /\ issued' = issued)]_vars

\* ------------------------------------------------------------------ C17

\* set_git_config has been invoked and is not running.
SetGitConfigOver == ncfg >= 1 /\ NotRunning("set_git_config")

\* C17: whatever the outcomes of its two commands, set_git_config leaves the
\* flag set, so that the identity commands an entry point issues are the ones
\* of the instance's first set_git_config and are never issued again.
C17_FlagSetWhateverOutcome ==
    /\ SetGitConfigOver => is_git_config
    /\ (cur.fn \in {EI, "initialize_tracking"} /\ Issues("identity")) => ncfg = 1

\* ------------------------------------------------------------------ C18

\* The directory one level below dir that the repository reference names.
Child(dir, repo) == dir \o Components(repo)

\* C18: a step that changes the working directory is a step of clone_repo or
\* initialize_repo_with_dvc and moves it one level down, into the existing
\* child the repository reference names in the working directory of that
\* moment; so during and after a call the working directory is the one the
\* call started in or, for these two methods, that child, and each call starts
\* where the call before it started or below.  The markers are looked up in the
\* working directory: a run that issued no clone command found the child in
\* the directory it started in, a run past line 112 that issued no storage-init
\* command sees the DVC marker in the working directory, and a run that
\* returned without a data-registration command sees the output path there.
C18_OnlyDescends ==
    /\ [][cwd' # cwd =>
            /\ stack # << >>
            /\ Top.fn \in {"clone_repo", EI}
            /\ cwd' = Child(cwd, Top.repo)
            /\ Len(cwd') = Len(cwd) + 1
            /\ cwd' \in fs']_vars
    /\ [](cwd \in {cur.cwd} \cup (IF cur.fn \in {"clone_repo", EI}
                                  THEN {Child(cur.cwd, cur.repo)} ELSE {}))
    /\ [](Len(prev.cwd) <= Len(cur.cwd) /\ SubSeq(cur.cwd, 1, Len(prev.cwd)) = prev.cwd)
    /\ []((cur.fn = EI /\ (EILine > 105 \/ ReturnedNormally) /\ ~Issues("clone")) =>
            (Child(cur.cwd, cur.repo) \in cur.fs /\ cwd = Child(cur.cwd, cur.repo)))
    /\ []((cur.fn = EI /\ (EILine > 112 \/ ReturnedNormally) /\ ~Issues("storage-init")) =>
            (cwd \o <<".dvc">>) \in fs)
    /\ []((cur.fn = EI /\ ReturnedNormally /\ ~Issues("data-registration")) =>
            (cwd \o Components(cur.output_path)) \in fs)

\* A second initialize_repo_with_dvc call started inside the repository
\* directory the first one moved into, cloned into it and moved one level
\* further down.
C18_Witness ==
    /\ ncalls = 2
    /\ cur.fn = EI
    /\ prev.fn = EI
    /\ ReturnedNormally
    /\ cur.cwd = <<"proj">>
    /\ cwd = <<"proj", "proj">>

====
